---- MODULE Spec2Model ----
(***************************************************************************)
(* Folder event handlers of flowy-folder2 (event_handler.rs) together with *)
(* the Folder Tree Engine (FolderManager) they call.                       *)
(*                                                                         *)
(* The handlers are translated from event_handler.rs.  The FolderManager   *)
(* is not part of the source slice; its operations are written from the    *)
(* contracts of spec.md (sections 3, 4 and 7) and carry the names of the   *)
(* methods the handlers call.                                              *)
(*                                                                         *)
(* Readings of spec.md fixed by the engine model:                          *)
(*  - a view is "absent" when it is not in the Node Store, "trashed" when  *)
(*    it has an entry in the Trash Ledger, "live" when present and not     *)
(*    trashed;                                                             *)
(*  - a workspace root child has the workspace id as parent_id; an orphan  *)
(*    view has parent_id NoId and is in no ordered_children;               *)
(*  - "descendant of id" in the cycle check is decided with ancestors_of   *)
(*    (section 4.1: ancestors_of is "used for cycle checks");              *)
(*  - moving or duplicating a trashed view is an InvalidOperation (section *)
(*    7: "would violate an invariant"; the invariant being that a trashed  *)
(*    view is in no ordered_children and keeps its parent_id); so is       *)
(*    duplicating a view that is in no ordered_children at all, which has  *)
(*    no sibling position for the copy;                                    *)
(*  - purge needs a Trash Entry (the handler is delete_trash);             *)
(*  - the error codes of FlowyError are named by the error kind of section *)
(*    7 they belong to: record_not_found is NotFound, workspace_id (the    *)
(*    workspace id is empty) is InvalidOperation, internal is Internal;    *)
(*  - the context open_workspace replaces is the active-view reference;    *)
(*    Trash Entries stay with their views in the Node Store.               *)
(***************************************************************************)
EXTENDS Integers, Sequences, FiniteSets, TLC

\* ------------------------------------------------------------------ bounds
\* Number of view ids that can ever be assigned.
MaxViews == 3

\* Number of views created in the sessions that trash, restore and purge.
MaxTrashViews == 2

\* Number of views created in the sessions that tag favorites and open views.
MaxFavViews == 2

\* Longest id list handed to a batch handler.
MaxBatch == 2

\* Number of views in the sessions that duplicate subtrees.
MaxDupViews == 4

\* Number of views in the sessions that import, and longest command
\* sequence of an import.
MaxImport == 3

\* Number of views in the sessions in which the manager is dropped.
MaxDropViews == 1

\* Number of views in the sessions that create and open workspaces.
MaxWsViews == 2

\* Number of views in the sessions with moves of two callers in flight.
MaxConcViews == 2

\* Number of views in the sessions with create calls of two callers in flight.
MaxRaceViews == 2

\* Number of snapshots captured in a session.
MaxCaptures == 11

\* Number of views created in the sessions that capture snapshots.
MaxSnapViews == 1

\* The retention bound of the Snapshot Store (spec 8: "a retention bound of
\* 10").
RetentionBound == 10

\* The count get_folder_snapshots_handler asks for.
SnapshotLimit == 10

\* ------------------------------------------------------------------ ids
\* Option::None / null parent_id.
NoId == "none"

\* The ids handed out by the engine, in order of assignment.
IdPool == <<"v1", "v2", "v3", "v4", "v5", "v6", "v7">>

\* Every view id.
AllIds == {IdPool[i] : i \in 1..Len(IdPool)}

\* The ids a caller sends in a session that creates at most n views: the ids
\* of these views and one id that no view ever has.
IdsUpTo(n) == {IdPool[i] : i \in 1..(n + 1)}

\* The id of IdsUpTo(n) that no view ever has.
UnknownId(n) == IdPool[n + 1]

\* The workspace of the session.
W == "w1"

\* A second workspace.
W2 == "w2"

\* Every workspace id the engine assigns.
WorkspaceIds == {W, W2}

\* A workspace id that no workspace has.
UnknownWorkspace == "w3"

\* The empty workspace id.
EmptyId == ""

\* The callers that have a handler call in flight at the same time.
Callers == {"c1", "c2"}

\* Everything that can own an ordered_children list.
Containers == WorkspaceIds \cup AllIds

\* Insert positions a caller requests (clamped by the engine) in a session
\* that creates at most n views.
Positions(n) == 0..n

\* The id lists of length at most n over ids.
ListsOver(ids, n) == UNION {[1..k -> ids] : k \in 0..n}

VARIABLES
  alive,        \* the Weak<FolderManager> still upgrades
  workspaces,   \* workspaces that exist
  open_ws,      \* the open workspace, NoId while Uninitialized
  next_id,      \* index into IdPool of the next fresh view id
  views,        \* Node Store: ids of the views present
  parent,       \* parent_id of each view
  children,     \* ordered_children of each container
  trash,        \* Trash Ledger, oldest entry first
  favorites,    \* Favorites Set, in tagging order
  current_view, \* active-view reference, NoId when none
  snapshots,    \* Snapshot Store: history of each workspace, oldest first
  captures,     \* number of snapshots captured so far for each workspace
  inflight,     \* the handler call each caller has in flight
  last          \* the handler call that completed last and what it returned

vars == <<alive, workspaces, open_ws, next_id, views, parent, children,
          trash, favorites, current_view, snapshots, captures, inflight, last>>

\* ------------------------------------------------------------------ helpers
\* Elements of a sequence.
Range(s) == {s[i] : i \in 1..Len(s)}

\* s without the occurrences of x.
Remove(s, x) == SelectSeq(s, LAMBDA y : y # x)

\* Index of the first occurrence of x in s, 0 when there is none.
IndexOf(s, x) ==
  IF x \in Range(s) THEN CHOOSE i \in 1..Len(s) : s[i] = x /\ \A j \in 1..(i - 1) : s[j] # x
  ELSE 0

\* pos clamped to the valid insert range of s.
Clamp(s, pos) == IF pos > Len(s) THEN Len(s) ELSE IF pos < 0 THEN 0 ELSE pos

\* s with x inserted so that pos elements precede it.
InsertAt(s, pos, x) ==
  SubSeq(s, 1, Clamp(s, pos)) \o <<x>> \o SubSeq(s, Clamp(s, pos) + 1, Len(s))

\* The engine's state as one value.
Folder ==
  [workspaces |-> workspaces, open_ws |-> open_ws, next_id |-> next_id,
   views |-> views, parent |-> parent, children |-> children, trash |-> trash,
   favorites |-> favorites, current_view |-> current_view,
   snapshots |-> snapshots, captures |-> captures]

\* The result of an engine operation.
Ret(st, res, val) == [st |-> st, res |-> res, val |-> val]

\* id has a Trash Entry.
is_trashed(st, id) == id \in Range(st.trash)

\* id is in the Favorites Set.
is_favorite(st, id) == id \in Range(st.favorites)

\* id is a view of the Node Store.
Present(st, id) == id \in st.views

\* id is a view that is present and not trashed.
Live(st, id) == Present(st, id) /\ ~is_trashed(st, id)

\* id resolves to a workspace or a present view.
ContainerPresent(st, id) == id \in st.workspaces \/ Present(st, id)

\* id resolves to a workspace or a live view.
ContainerLive(st, id) == id \in st.workspaces \/ Live(st, id)

\* get(id): the view, or nothing.
get_view_pb(st, id) ==
  IF Present(st, id) THEN Ret(st, "Ok", id) ELSE Ret(st, "NotFound", NoId)

\* children_of(parent_id).
children_of(st, id) == st.children[id]

\* ancestors_of(id) as a set, following parent_id for at most fuel steps.
RECURSIVE AncestorsFuel(_, _, _)
AncestorsFuel(st, id, fuel) ==
  IF fuel = 0 \/ id \notin st.views \/ st.parent[id] = NoId THEN {}
  ELSE {st.parent[id]} \cup AncestorsFuel(st, st.parent[id], fuel - 1)

\* ancestors_of(id): every container above id.
ancestors_of(st, id) == AncestorsFuel(st, id, Len(IdPool) + 1)


\* ------------------------------------------------------------------ engine
\* 4.1 create_view: NotFound unless parent_id is a live view or a workspace;
\* a fresh id, inserted into the parent's ordered_children at position.
create_view_with_params(st, parent_id, position) ==
  IF ~ContainerLive(st, parent_id) THEN Ret(st, "NotFound", NoId)
  ELSE LET id == IdPool[st.next_id] IN
       Ret([st EXCEPT !.next_id = @ + 1,
                      !.views = @ \cup {id},
                      !.parent[id] = parent_id,
                      !.children[parent_id] = InsertAt(@, position, id)],
           "Ok", id)

\* 4.1 create_orphan_view: as create_view, but permitted with no live parent;
\* the view is then stored with no parent and in no ordered_children.
create_orphan_view_with_params(st, parent_id, position) ==
  IF ContainerLive(st, parent_id) THEN create_view_with_params(st, parent_id, position)
  ELSE LET id == IdPool[st.next_id] IN
       Ret([st EXCEPT !.next_id = @ + 1,
                      !.views = @ \cup {id},
                      !.parent[id] = NoId],
           "Ok", id)

\* 4.4 set_current: NotFound if id is absent; records id as the active view.
set_current_view(st, id) ==
  IF ~Present(st, id) THEN Ret(st, "NotFound", NoId)
  ELSE Ret([st EXCEPT !.current_view = id], "Ok", id)

\* 4.4 close: clears the active-view reference only if it equals id.
close_view(st, id) ==
  IF st.current_view = id THEN Ret([st EXCEPT !.current_view = NoId], "Ok", id)
  ELSE Ret(st, "Ok", id)

\* 4.3 toggle_favorite: NotFound if id is absent; flips is_favorite.
toggle_favorites(st, id) ==
  IF ~Present(st, id) THEN Ret(st, "NotFound", NoId)
  ELSE IF is_favorite(st, id)
       THEN Ret([st EXCEPT !.favorites = Remove(@, id)], "Ok", id)
       ELSE Ret([st EXCEPT !.favorites = Append(@, id)], "Ok", id)

\* The children lists after id left the list of its parent.
Detach(st, id) ==
  IF st.parent[id] \in Containers
  THEN [st.children EXCEPT ![st.parent[id]] = Remove(@, id)]
  ELSE st.children

\* 4.1 move_view(id, new_parent_id, position) with position an index.
MoveTo(st, id, new_parent_id, position) ==
  IF ~Present(st, id) \/ ~ContainerPresent(st, new_parent_id)
  THEN Ret(st, "NotFound", NoId)
  ELSE IF new_parent_id = id \/ id \in ancestors_of(st, new_parent_id)
  THEN Ret(st, "InvalidOperation", NoId)
  ELSE IF is_trashed(st, id)
  THEN Ret(st, "InvalidOperation", NoId)
  ELSE LET detached == Detach(st, id) IN
       Ret([st EXCEPT !.children = [detached EXCEPT ![new_parent_id] = InsertAt(@, position, id)],
                      !.parent[id] = new_parent_id],
           "Ok", id)

\* The index that puts a view right after prev_view_id in s: the front when
\* there is no prev_view_id, the end when prev_view_id is not in s.
PositionAfter(s, prev_view_id) ==
  IF prev_view_id = NoId THEN 0
  ELSE IF prev_view_id \in Range(s) THEN IndexOf(s, prev_view_id)
  ELSE Len(s)

\* move_nested_view(view_id, new_parent_id, prev_view_id): 4.1 move_view with
\* the position given as the sibling the view is to follow.
move_nested_view(st, view_id, new_parent_id, prev_view_id) ==
  MoveTo(st, view_id, new_parent_id,
         IF new_parent_id \in Containers
         THEN PositionAfter(Remove(st.children[new_parent_id], view_id), prev_view_id)
         ELSE 0)

\* move_view(view_id, from, to): 4.1 move_view within the current parent, to
\* index `to`.
move_view(st, view_id, from, to) ==
  MoveTo(st, view_id, IF Present(st, view_id) THEN st.parent[view_id] ELSE NoId, to)

\* move_view_to_trash that leaves the view in its parent's ordered_children.
move_view_to_trash_attached(st, id) ==
  IF ~Present(st, id) \/ is_trashed(st, id) THEN Ret(st, "NotFound", NoId)
  ELSE Ret([st EXCEPT !.trash = Append(@, id)], "Ok", id)

\* 4.2 trash: NotFound if absent or already trashed; detaches the view from
\* ordered_children, keeps parent_id, appends a Trash Entry.
move_view_to_trash(st, id) ==
  IF ~Present(st, id) \/ is_trashed(st, id) THEN Ret(st, "NotFound", NoId)
  ELSE Ret([st EXCEPT !.children = Detach(st, id),
                      !.trash = Append(@, id)],
           "Ok", id)

\* The container a restored view is attached to: the recorded parent_id when
\* it is present and live, the workspace root otherwise.
RestoreTarget(st, id) ==
  IF ContainerLive(st, st.parent[id]) THEN st.parent[id] ELSE st.open_ws

\* restore_trash that re-attaches the view but keeps the recorded parent_id.
restore_trash_keeping_parent(st, id) ==
  IF ~is_trashed(st, id) THEN Ret(st, "NotFound", NoId)
  ELSE LET target == RestoreTarget(st, id) IN
       IF target \in Containers
       THEN Ret([st EXCEPT !.children[target] = Append(@, id),
                           !.trash = Remove(@, id)],
                "Ok", id)
       ELSE Ret([st EXCEPT !.trash = Remove(@, id)], "Ok", id)

\* 4.2 restore: NotFound if not in trash; appended to the end of the target's
\* children; the Trash Entry is removed.
restore_trash(st, id) ==
  IF ~is_trashed(st, id) THEN Ret(st, "NotFound", NoId)
  ELSE LET target == RestoreTarget(st, id) IN
       IF target \in Containers
       THEN Ret([st EXCEPT !.children[target] = Append(@, id),
                           !.parent[id] = target,
                           !.trash = Remove(@, id)],
                "Ok", id)
       ELSE Ret([st EXCEPT !.parent[id] = NoId,
                           !.trash = Remove(@, id)],
                "Ok", id)

\* delete_trash that leaves the Favorites Set and the active view alone.
delete_trash_keeping_refs(st, id) ==
  IF ~is_trashed(st, id) THEN Ret(st, "NotFound", NoId)
  ELSE Ret([st EXCEPT !.views = @ \ {id},
                      !.parent[id] = NoId,
                      !.children[id] = <<>>,
                      !.trash = Remove(@, id)],
           "Ok", id)

\* 4.2 purge: removes the view from the Node Store with its Trash Entry, from
\* Favorites, and from the active-view reference; its children stay as they are.
delete_trash(st, id) ==
  IF ~is_trashed(st, id) THEN Ret(st, "NotFound", NoId)
  ELSE Ret([st EXCEPT !.views = @ \ {id},
                      !.parent[id] = NoId,
                      !.children[id] = <<>>,
                      !.trash = Remove(@, id),
                      !.favorites = Remove(@, id),
                      !.current_view = IF @ = id THEN NoId ELSE @],
           "Ok", id)

\* delete_view_handler's loop: each id trashed in order, every failure dropped.
RECURSIVE TrashEach(_, _)
TrashEach(st, ids) ==
  IF ids = <<>> THEN st ELSE TrashEach(move_view_to_trash(st, Head(ids)).st, Tail(ids))

\* toggle_favorites_handler's loop: each id toggled in order, every failure
\* dropped.
RECURSIVE ToggleEach(_, _)
ToggleEach(st, ids) ==
  IF ids = <<>> THEN st ELSE ToggleEach(toggle_favorites(st, Head(ids)).st, Tail(ids))

\* delete_trash_handler's loop: each id purged in order, every failure dropped.
RECURSIVE PurgeEach(_, _)
PurgeEach(st, ids) ==
  IF ids = <<>> THEN st ELSE PurgeEach(delete_trash(st, Head(ids)).st, Tail(ids))

\* Each id restored in order, every failure dropped.
RECURSIVE RestoreEach(_, _)
RestoreEach(st, ids) ==
  IF ids = <<>> THEN st ELSE RestoreEach(restore_trash(st, Head(ids)).st, Tail(ids))

\* 4.2 restore_all: every Trash Entry restored, oldest first.
restore_all_trash(st) == Ret(RestoreEach(st, st.trash), "Ok", NoId)

\* 4.2 delete_all: every Trash Entry purged.
delete_all_trash(st) == Ret(PurgeEach(st, st.trash), "Ok", NoId)

\* 4.3 list_favorites source: the favorite items in tagging order.
get_all_favorites(st) == st.favorites

\* The Trash Ledger.
get_all_trash(st) == st.trash

\* 4.4 get_current: the active view, nothing when there is none or it does not
\* resolve.
get_current_view(st) == IF Present(st, st.current_view) THEN st.current_view ELSE NoId


\* The commands of an import applied in order up to the first that fails; a
\* command creates a view at the end of the children of the parent it names.
RECURSIVE ApplyCommands(_, _)
ApplyCommands(st, commands) ==
  IF commands = <<>> THEN Ret(st, "Ok", NoId)
  ELSE LET r == create_view_with_params(st, Head(commands), Len(IdPool)) IN
       IF r.res # "Ok" THEN r ELSE ApplyCommands(r.st, Tail(commands))

\* 4.6 import: the commands applied as one batch; a failure of any command
\* aborts the batch and leaves the tree as it was.
import(st, params) ==
  LET r == ApplyCommands(st, params) IN
  IF r.res # "Ok" THEN Ret(st, r.res, NoId) ELSE r

\* create_workspace: a workspace with a fresh id, the next of WorkspaceIds.
create_workspace(st) ==
  LET id == IF W \notin st.workspaces THEN W ELSE W2 IN
  Ret([st EXCEPT !.workspaces = @ \cup {id}], "Ok", id)

\* The views of a workspace, the root children.
get_views_belong_to(st, workspace_id) ==
  IF workspace_id \in st.workspaces THEN Ret(st, "Ok", st.children[workspace_id])
  ELSE Ret(st, "NotFound", <<>>)

\* The views of a workspace, the root children.
get_workspace_views(st, workspace_id) == get_views_belong_to(st, workspace_id)

\* The root children of the open workspace.
get_current_workspace_views(st) == get_views_belong_to(st, st.open_ws)

\* The open workspace, NoId (None) while Uninitialized.
get_workspace_pb(st) == st.open_ws

\* The open workspace with its active view, NoId (None) while Uninitialized.
get_workspace_setting_pb(st) ==
  IF st.open_ws = NoId THEN NoId ELSE <<st.open_ws, get_current_view(st)>>

\* 4.6 open_workspace: InvalidOperation for the empty id, NotFound for a
\* workspace that does not exist; otherwise id is the open workspace and the
\* context of the workspace that was open is replaced: no active view.
open_workspace(st, id) ==
  IF id = EmptyId THEN Ret(st, "InvalidOperation", NoId)
  ELSE IF id \notin st.workspaces THEN Ret(st, "NotFound", NoId)
  ELSE Ret([st EXCEPT !.open_ws = id, !.current_view = NoId], "Ok", id)

\* 4.1 update_view: NotFound if id is absent; name and icon are not part of
\* the hierarchy.
update_view_with_params(st, id) ==
  IF ~Present(st, id) THEN Ret(st, "NotFound", NoId) ELSE Ret(st, "Ok", id)

\* 4.1 update_view for the icon.
update_view_icon_with_params(st, id) == update_view_with_params(st, id)

\* s in reverse order.
Reverse(s) == [i \in 1..Len(s) |-> s[Len(s) + 1 - i]]

\* The first n elements of s, all of s when it has fewer.
Truncate(s, n) == SubSeq(s, 1, IF n < Len(s) THEN n ELSE Len(s))

\* 3 Snapshot: the serialized state of the workspace with its capture time.
Snapshot(st, workspace_id) ==
  [workspace |-> workspace_id, taken |-> st.captures[workspace_id] + 1,
   views |-> st.views, parent |-> st.parent, children |-> st.children,
   trash |-> st.trash, favorites |-> st.favorites]

\* capture that never evicts.
capture_keeping_all(st, workspace_id) ==
  IF workspace_id \notin st.workspaces THEN Ret(st, "NotFound", NoId)
  ELSE Ret([st EXCEPT !.snapshots[workspace_id] = Append(@, Snapshot(st, workspace_id)),
                      !.captures[workspace_id] = @ + 1],
           "Ok", workspace_id)

\* 4.5 capture: the snapshot is appended to the history of the workspace and
\* the oldest entries beyond the retention bound are evicted.
capture(st, workspace_id) ==
  IF workspace_id \notin st.workspaces THEN Ret(st, "NotFound", NoId)
  ELSE LET history == Append(st.snapshots[workspace_id], Snapshot(st, workspace_id))
           oldest == IF RetentionBound < Len(history)
                     THEN Len(history) - RetentionBound + 1 ELSE 1
       IN Ret([st EXCEPT !.snapshots[workspace_id] = SubSeq(history, oldest, Len(history)),
                         !.captures[workspace_id] = @ + 1],
              "Ok", workspace_id)

\* 4.5 list(workspace_id, limit): the history newest first, truncated to
\* limit; the empty sequence for an unknown workspace.
get_folder_snapshots(st, workspace_id, limit) ==
  IF workspace_id \notin st.workspaces THEN Ret(st, "Ok", <<>>)
  ELSE Ret(st, "Ok", Truncate(Reverse(st.snapshots[workspace_id]), limit))

\* Number of views in the subtree of id along ordered_children.
RECURSIVE SubtreeSize(_, _, _)
SubtreeSize(st, id, fuel) ==
  IF fuel = 0 THEN 1
  ELSE LET kids == st.children[id]
           RECURSIVE Sum(_)
           Sum(i) == IF i > Len(kids) THEN 0
                     ELSE SubtreeSize(st, kids[i], fuel - 1) + Sum(i + 1)
       IN 1 + Sum(1)

\* Deep copy of the subtree of src: the copy of src takes the next fresh id
\* and new_parent as parent_id, the copies of its children follow in order.
RECURSIVE CopySubtree(_, _, _, _)
RECURSIVE CopyChildren(_, _, _, _)
CopySubtree(st, src, new_parent, fuel) ==
  LET id == IdPool[st.next_id] IN
  CopyChildren([st EXCEPT !.next_id = @ + 1,
                          !.views = @ \cup {id},
                          !.parent[id] = new_parent],
               st.children[src], id, fuel)

CopyChildren(st, kids, new_parent, fuel) ==
  IF kids = <<>> \/ fuel = 0 THEN st
  ELSE LET copy == IdPool[st.next_id]
           copied == CopySubtree(st, Head(kids), new_parent, fuel - 1)
       IN CopyChildren([copied EXCEPT !.children[new_parent] = Append(@, copy)],
                       Tail(kids), new_parent, fuel)

\* id is a member of the ordered_children of its parent.
Attached(st, id) ==
  /\ Present(st, id)
  /\ st.parent[id] \in Containers
  /\ id \in Range(st.children[st.parent[id]])

\* 4.1 duplicate_view: NotFound if id is absent; a deep copy with fresh ids,
\* its root inserted right after id among the siblings of id.  A view that is
\* in no ordered_children (trashed or unattached) has no siblings:
\* InvalidOperation.
duplicate_view(st, id) ==
  IF ~Present(st, id) THEN Ret(st, "NotFound", NoId)
  ELSE IF ~Attached(st, id) THEN Ret(st, "InvalidOperation", NoId)
  ELSE LET copy == IdPool[st.next_id]
           p == st.parent[id]
           copied == CopySubtree(st, id, p, Len(IdPool))
       IN Ret([copied EXCEPT !.children[p] = InsertAt(@, IndexOf(@, id), copy)],
              "Ok", copy)

\* ------------------------------------------------------------------ handlers
\* The engine state becomes st.
Install(st) ==
  /\ workspaces' = st.workspaces
  /\ open_ws' = st.open_ws
  /\ next_id' = st.next_id
  /\ views' = st.views
  /\ parent' = st.parent
  /\ children' = st.children
  /\ trash' = st.trash
  /\ favorites' = st.favorites
  /\ current_view' = st.current_view
  /\ snapshots' = st.snapshots
  /\ captures' = st.captures

\* What a handler call left behind: its name, the view id it was given (or, for
\* the create handlers, returned), its further ids (the id list of a batch
\* handler, new_parent_id and prev_view_id or from and to of a move), and its
\* return value.
Call(op, id, args, result) == [op |-> op, id |-> id, args |-> args, result |-> result]

\* upgrade_folder: Ok while the manager is alive, an internal error after it
\* was dropped.
upgrade_folder == IF alive THEN "Ok" ELSE "Internal"

\* No call in flight.
Idle ==
  [pc |-> "idle", op |-> "none", id |-> NoId, args |-> <<>>, result |-> "none",
   base |-> <<>>, interleaved |-> FALSE]

\* The calls in flight after an engine operation of caller c completed: the
\* calls of the other callers that are between two engine operations have had
\* an operation of another caller run in between.
Interleave(calls, c) ==
  [o \in Callers |->
     IF o # c /\ calls[o].pc = "created" THEN [calls[o] EXCEPT !.interleaved = TRUE]
     ELSE calls[o]]

\* A handler whose engine operations run in one step returns with the engine
\* state st.
Return(st, op, id, args, result) ==
  /\ Install(st)
  /\ last' = Call(op, id, args, result)
  /\ inflight' = Interleave(inflight, "none")
  /\ UNCHANGED alive

\* A handler returns the error of upgrade_folder.
Dropped(op, id, args) == Return(Folder, op, id, args, upgrade_folder)

\* The engine state after the optional set_current_view of the create handlers,
\* whose result is dropped.
SetAsCurrent(r, set_as_current) ==
  IF set_as_current THEN set_current_view(r.st, r.val).st ELSE r.st

create_view_handler(parent_id, position, set_as_current) ==
  IF upgrade_folder # "Ok" THEN Dropped("create_view", NoId, <<>>)
  ELSE LET r == create_view_with_params(Folder, parent_id, position) IN
       IF r.res # "Ok" THEN Return(Folder, "create_view", NoId, <<>>, r.res)
       ELSE Return(SetAsCurrent(r, set_as_current), "create_view", r.val, <<>>, "Ok")

create_orphan_view_handler(parent_id, position, set_as_current) ==
  IF upgrade_folder # "Ok" THEN Dropped("create_orphan_view", NoId, <<>>)
  ELSE LET r == create_orphan_view_with_params(Folder, parent_id, position) IN
       IF r.res # "Ok" THEN Return(Folder, "create_orphan_view", NoId, <<>>, r.res)
       ELSE Return(SetAsCurrent(r, set_as_current), "create_orphan_view", r.val, <<>>, "Ok")

\* The ids of a list, each followed by its children.
RECURSIVE WithChildren(_, _)
WithChildren(st, ids) ==
  IF ids = <<>> THEN <<>>
  ELSE <<Head(ids)>> \o st.children[Head(ids)] \o WithChildren(st, Tail(ids))

\* delete_view_handler that also trashes the children of each view.
delete_view_handler_cascading(items) ==
  IF upgrade_folder # "Ok" THEN Dropped("delete_view", NoId, items)
  ELSE Return(TrashEach(Folder, WithChildren(Folder, items)), "delete_view", NoId, items, "Ok")

\* delete_view_handler that returns the first error (? in place of let _ =).
RECURSIVE TrashUntilError(_, _)
TrashUntilError(st, ids) ==
  IF ids = <<>> THEN Ret(st, "Ok", NoId)
  ELSE LET r == move_view_to_trash(st, Head(ids)) IN
       IF r.res # "Ok" THEN r ELSE TrashUntilError(r.st, Tail(ids))

delete_view_handler_failfast(items) ==
  IF upgrade_folder # "Ok" THEN Dropped("delete_view", NoId, items)
  ELSE LET r == TrashUntilError(Folder, items) IN
       Return(r.st, "delete_view", NoId, items, r.res)

delete_view_handler(items) ==
  IF upgrade_folder # "Ok" THEN Dropped("delete_view", NoId, items)
  ELSE Return(TrashEach(Folder, items), "delete_view", NoId, items, "Ok")

toggle_favorites_handler(items) ==
  IF upgrade_folder # "Ok" THEN Dropped("toggle_favorites", NoId, items)
  ELSE Return(ToggleEach(Folder, items), "toggle_favorites", NoId, items, "Ok")

set_latest_view_handler(view_id) ==
  IF upgrade_folder # "Ok" THEN Dropped("set_latest_view", view_id, <<>>)
  ELSE Return(set_current_view(Folder, view_id).st, "set_latest_view", view_id, <<>>, "Ok")

\* close_view_handler that closes whatever view is active.
close_view_handler_active(view_id) ==
  IF upgrade_folder # "Ok" THEN Dropped("close_view", view_id, <<>>)
  ELSE Return(close_view(Folder, current_view).st, "close_view", view_id, <<>>, "Ok")

close_view_handler(view_id) ==
  IF upgrade_folder # "Ok" THEN Dropped("close_view", view_id, <<>>)
  ELSE Return(close_view(Folder, view_id).st, "close_view", view_id, <<>>, "Ok")

move_view_handler(view_id, from, to) ==
  IF upgrade_folder # "Ok" THEN Dropped("move_view", view_id, <<from, to>>)
  ELSE LET r == move_view(Folder, view_id, from, to) IN
       Return(r.st, "move_view", view_id, <<from, to>>, r.res)

\* move_nested_view_handler with the engine's result dropped (let _ = ...).
move_nested_view_handler_ignoring(view_id, new_parent_id, prev_view_id) ==
  IF upgrade_folder # "Ok" THEN Dropped("move_nested_view", view_id, <<new_parent_id, prev_view_id>>)
  ELSE LET r == move_nested_view(Folder, view_id, new_parent_id, prev_view_id) IN
       Return(r.st, "move_nested_view", view_id, <<new_parent_id, prev_view_id>>, "Ok")

\* move_nested_view_handler with view_id and new_parent_id passed in each
\* other's place.
move_nested_view_handler_swapped(view_id, new_parent_id, prev_view_id) ==
  IF upgrade_folder # "Ok" THEN Dropped("move_nested_view", view_id, <<new_parent_id, prev_view_id>>)
  ELSE LET r == move_nested_view(Folder, new_parent_id, view_id, prev_view_id) IN
       Return(r.st, "move_nested_view", view_id, <<new_parent_id, prev_view_id>>, r.res)

\* move_nested_view_handler with new_parent_id and prev_view_id passed in each
\* other's place.
move_nested_view_handler_prev_as_parent(view_id, new_parent_id, prev_view_id) ==
  IF upgrade_folder # "Ok" THEN Dropped("move_nested_view", view_id, <<new_parent_id, prev_view_id>>)
  ELSE LET r == move_nested_view(Folder, view_id, prev_view_id, new_parent_id) IN
       Return(r.st, "move_nested_view", view_id, <<new_parent_id, prev_view_id>>, r.res)

move_nested_view_handler(view_id, new_parent_id, prev_view_id) ==
  IF upgrade_folder # "Ok" THEN Dropped("move_nested_view", view_id, <<new_parent_id, prev_view_id>>)
  ELSE LET r == move_nested_view(Folder, view_id, new_parent_id, prev_view_id) IN
       Return(r.st, "move_nested_view", view_id, <<new_parent_id, prev_view_id>>, r.res)

\* duplicate_view_handler with the engine's result dropped (let _ = ...).
duplicate_view_handler_ignoring(view_id) ==
  IF upgrade_folder # "Ok" THEN Dropped("duplicate_view", view_id, <<>>)
  ELSE Return(duplicate_view(Folder, view_id).st, "duplicate_view", view_id, <<>>, "Ok")

duplicate_view_handler(view_id) ==
  IF upgrade_folder # "Ok" THEN Dropped("duplicate_view", view_id, <<>>)
  ELSE LET r == duplicate_view(Folder, view_id) IN
       Return(r.st, "duplicate_view", view_id, <<>>, r.res)

\* A handler that reads returns r.
Read(op, id, r) ==
  Return(Folder, op, id, IF r.res = "Ok" THEN r.val ELSE <<>>, r.res)

\* The views of the favorite items that still resolve.
read_favorites_handler ==
  IF upgrade_folder # "Ok" THEN Ret(Folder, upgrade_folder, <<>>)
  ELSE Ret(Folder, "Ok",
           SelectSeq(get_all_favorites(Folder),
                     LAMBDA item : get_view_pb(Folder, item).res = "Ok"))

\* The Trash Ledger as returned to the caller.
read_trash_handler ==
  IF upgrade_folder # "Ok" THEN Ret(Folder, upgrade_folder, <<>>)
  ELSE Ret(Folder, "Ok", get_all_trash(Folder))

\* The root children of the open workspace.
get_workspace_views_handler ==
  IF upgrade_folder # "Ok" THEN Ret(Folder, upgrade_folder, <<>>)
  ELSE get_current_workspace_views(Folder)

\* The open workspace and its active view.
read_current_workspace_setting_handler ==
  IF upgrade_folder # "Ok" THEN Ret(Folder, upgrade_folder, <<>>)
  ELSE IF get_workspace_setting_pb(Folder) = NoId THEN Ret(Folder, "NotFound", <<>>)
  ELSE Ret(Folder, "Ok", get_workspace_setting_pb(Folder))

\* The open workspace, as a list of one id.
read_current_workspace_handler ==
  IF upgrade_folder # "Ok" THEN Ret(Folder, upgrade_folder, <<>>)
  ELSE IF get_workspace_pb(Folder) = NoId THEN Ret(Folder, "NotFound", <<>>)
  ELSE Ret(Folder, "Ok", <<get_workspace_pb(Folder)>>)

\* The view, as a list of one id.
read_view_handler(view_id) ==
  IF upgrade_folder # "Ok" THEN Ret(Folder, upgrade_folder, <<>>)
  ELSE LET r == get_view_pb(Folder, view_id) IN
       IF r.res # "Ok" THEN Ret(Folder, r.res, <<>>) ELSE Ret(Folder, "Ok", <<r.val>>)

\* The workspace is returned with its views.
create_workspace_handler ==
  IF upgrade_folder # "Ok" THEN Dropped("create_workspace", NoId, <<>>)
  ELSE LET r == create_workspace(Folder)
           v == get_views_belong_to(r.st, r.val)
       IN IF v.res # "Ok" THEN Return(r.st, "create_workspace", NoId, <<>>, v.res)
          ELSE Return(r.st, "create_workspace", r.val, v.val, "Ok")

\* open_workspace_handler without the call of open_workspace: the views of
\* the workspace are read and returned.
open_workspace_handler_views_only(workspace_id) ==
  IF upgrade_folder # "Ok" THEN Dropped("open_workspace", workspace_id, <<>>)
  ELSE IF workspace_id = EmptyId
  THEN Return(Folder, "open_workspace", workspace_id, <<>>, "InvalidOperation")
  ELSE LET v == get_workspace_views(Folder, workspace_id) IN
       Return(Folder, "open_workspace", workspace_id,
              IF v.res = "Ok" THEN v.val ELSE <<>>, v.res)

\* open_workspace_handler with the result of open_workspace dropped.
open_workspace_handler_ignoring(workspace_id) ==
  IF upgrade_folder # "Ok" THEN Dropped("open_workspace", workspace_id, <<>>)
  ELSE IF workspace_id = EmptyId
  THEN Return(Folder, "open_workspace", workspace_id, <<>>, "InvalidOperation")
  ELSE Return(open_workspace(Folder, workspace_id).st, "open_workspace", workspace_id, <<>>, "Ok")

\* The workspace is returned with its views.
open_workspace_handler(workspace_id) ==
  IF upgrade_folder # "Ok" THEN Dropped("open_workspace", workspace_id, <<>>)
  ELSE IF workspace_id = EmptyId
  THEN Return(Folder, "open_workspace", workspace_id, <<>>, "InvalidOperation")
  ELSE LET r == open_workspace(Folder, workspace_id) IN
       IF r.res # "Ok" THEN Return(Folder, "open_workspace", workspace_id, <<>>, r.res)
       ELSE LET v == get_workspace_views(r.st, workspace_id) IN
            IF v.res # "Ok" THEN Return(r.st, "open_workspace", workspace_id, <<>>, v.res)
            ELSE Return(r.st, "open_workspace", workspace_id, v.val, "Ok")

update_view_handler(view_id) ==
  IF upgrade_folder # "Ok" THEN Dropped("update_view", view_id, <<>>)
  ELSE LET r == update_view_with_params(Folder, view_id) IN
       Return(r.st, "update_view", view_id, <<>>, r.res)

update_view_icon_handler(view_id) ==
  IF upgrade_folder # "Ok" THEN Dropped("update_view_icon", view_id, <<>>)
  ELSE LET r == update_view_icon_with_params(Folder, view_id) IN
       Return(r.st, "update_view_icon", view_id, <<>>, r.res)

\* putback_trash_handler that calls restore_all_trash.
putback_trash_handler_all(id) ==
  IF upgrade_folder # "Ok" THEN Dropped("putback_trash", id, <<>>)
  ELSE Return(restore_all_trash(Folder).st, "putback_trash", id, <<>>, "Ok")

putback_trash_handler(id) ==
  IF upgrade_folder # "Ok" THEN Dropped("putback_trash", id, <<>>)
  ELSE Return(restore_trash(Folder, id).st, "putback_trash", id, <<>>, "Ok")

delete_trash_handler(items) ==
  IF upgrade_folder # "Ok" THEN Dropped("delete_trash", NoId, items)
  ELSE Return(PurgeEach(Folder, items), "delete_trash", NoId, items, "Ok")

restore_all_trash_handler ==
  IF upgrade_folder # "Ok" THEN Dropped("restore_all_trash", NoId, <<>>)
  ELSE Return(restore_all_trash(Folder).st, "restore_all_trash", NoId, <<>>, "Ok")

delete_all_trash_handler ==
  IF upgrade_folder # "Ok" THEN Dropped("delete_all_trash", NoId, <<>>)
  ELSE Return(delete_all_trash(Folder).st, "delete_all_trash", NoId, <<>>, "Ok")

\* get_folder_snapshots_handler that turns an unknown workspace into a
\* record-not-found error, as the workspace reads do.
get_folder_snapshots_handler_strict(workspace_id) ==
  IF upgrade_folder # "Ok" THEN Dropped("get_folder_snapshots", workspace_id, <<>>)
  ELSE IF workspace_id \notin workspaces
  THEN Return(Folder, "get_folder_snapshots", workspace_id, <<>>, "NotFound")
  ELSE Return(Folder, "get_folder_snapshots", workspace_id,
              get_folder_snapshots(Folder, workspace_id, SnapshotLimit).val, "Ok")

\* The snapshots are returned in `args`.
get_folder_snapshots_handler(workspace_id) ==
  IF upgrade_folder # "Ok" THEN Dropped("get_folder_snapshots", workspace_id, <<>>)
  ELSE LET r == get_folder_snapshots(Folder, workspace_id, SnapshotLimit) IN
       IF r.res # "Ok" THEN Return(Folder, "get_folder_snapshots", workspace_id, <<>>, r.res)
       ELSE Return(Folder, "get_folder_snapshots", workspace_id, r.val, "Ok")

\* The commands of an import applied one by one, every failure dropped.
RECURSIVE ImportEach(_, _)
ImportEach(st, commands) ==
  IF commands = <<>> THEN st
  ELSE ImportEach(create_view_with_params(st, Head(commands), Len(IdPool)).st, Tail(commands))

\* import_data_handler written as the best-effort loops of the batch handlers.
import_data_handler_each(params) ==
  IF upgrade_folder # "Ok" THEN Dropped("import_data", NoId, params)
  ELSE Return(ImportEach(Folder, params), "import_data", NoId, params, "Ok")

\* params: the command sequence the import parser made of the payload.
import_data_handler(params) ==
  IF upgrade_folder # "Ok" THEN Dropped("import_data", NoId, params)
  ELSE LET r == import(Folder, params) IN
       Return(r.st, "import_data", NoId, params, r.res)

\* ------------------------------------------------------------------ actions
\* The ids of a deep copy of id fit in a session of at most limit views.
CanCopy(id, limit) ==
  ~Attached(Folder, id) \/ next_id + SubtreeSize(Folder, id, Len(IdPool)) - 1 <= limit

\* create_view_handler while fewer than limit views were created, the parent
\* drawn from parents and the position from positions.
CreateViewIn(limit, parents, positions, flags) ==
  /\ next_id <= limit
  /\ \E parent_id \in parents, position \in positions, set_as_current \in flags :
       create_view_handler(parent_id, position, set_as_current)

\* create_view_handler with any parent and any position.
CreateViewUpTo(limit, flags) ==
  CreateViewIn(limit, {W} \cup IdsUpTo(limit), Positions(limit), flags)

\* create_orphan_view_handler while fewer than limit views were created, the
\* parent drawn from parents and the position from positions.
CreateOrphanViewIn(limit, parents, positions, flags) ==
  /\ next_id <= limit
  /\ \E parent_id \in parents, position \in positions, set_as_current \in flags :
       create_orphan_view_handler(parent_id, position, set_as_current)

\* create_orphan_view_handler with any parent, or none, and any position.
CreateOrphanViewUpTo(limit, flags) ==
  CreateOrphanViewIn(limit, {W} \cup IdsUpTo(limit) \cup {NoId}, Positions(limit), flags)

DeleteViewOver(lists) == \E items \in lists : delete_view_handler(items)

ToggleFavoritesOver(lists) == \E items \in lists : toggle_favorites_handler(items)

SetLatestViewOver(ids) == \E view_id \in ids : set_latest_view_handler(view_id)

CloseViewOver(ids) == \E view_id \in ids : close_view_handler(view_id)

\* The 0-based index of view_id among its siblings, 0 when it has none.
CurrentIndex(view_id) ==
  IF Attached(Folder, view_id) THEN IndexOf(children[parent[view_id]], view_id) - 1 ELSE 0

\* The caller sends the index the view is at as `from`.
MoveViewUpTo(limit) ==
  \E view_id \in IdsUpTo(limit), to \in Positions(limit) :
    move_view_handler(view_id, CurrentIndex(view_id), to)

\* prev_view_id is no view, a child of the new parent, or a view that is not
\* one of its children.
MoveNestedViewUpTo(limit) ==
  \E view_id \in IdsUpTo(limit), new_parent_id \in {W} \cup IdsUpTo(limit) :
    \E prev_view_id \in Range(children[new_parent_id]) \cup {NoId, UnknownId(limit)} :
      move_nested_view_handler(view_id, new_parent_id, prev_view_id)

DuplicateViewUpTo(limit) ==
  \E view_id \in IdsUpTo(limit) : CanCopy(view_id, limit) /\ duplicate_view_handler(view_id)

PutbackTrashOver(ids) == \E id \in ids : putback_trash_handler(id)

DeleteTrashOver(lists) == \E items \in lists : delete_trash_handler(items)

RestoreAllTrash == restore_all_trash_handler

DeleteAllTrash == delete_all_trash_handler

\* The Snapshot Store captures the state of a workspace (on demand or
\* periodically); no handler is involved, the capture is recorded as the
\* last call.
Capture(workspace_id) ==
  LET r == capture(Folder, workspace_id) IN
  /\ Install(r.st)
  /\ last' = Call("capture", workspace_id, <<>>, r.res)
  /\ UNCHANGED <<alive, inflight>>

CreateWorkspace == workspaces # WorkspaceIds /\ create_workspace_handler

OpenWorkspaceOver(ids) == \E workspace_id \in ids : open_workspace_handler(workspace_id)

ReadCurrentWorkspace == Read("read_current_workspace", NoId, read_current_workspace_handler)

ReadCurrentWorkspaceSetting ==
  Read("read_current_workspace_setting", NoId, read_current_workspace_setting_handler)

GetWorkspaceViews == Read("get_workspace_views", NoId, get_workspace_views_handler)

ReadFavorites == Read("read_favorites", NoId, read_favorites_handler)

ReadTrash == Read("read_trash", NoId, read_trash_handler)

\* The FolderManager is dropped: its Weak reference no longer upgrades.
Drop ==
  /\ alive
  /\ alive' = FALSE
  /\ last' = Call("drop", NoId, <<>>, "Ok")
  /\ UNCHANGED <<workspaces, open_ws, next_id, views, parent, children, trash,
                 favorites, current_view, snapshots, captures, inflight>>

GetFolderSnapshotsOver(ids) ==
  \E workspace_id \in ids : get_folder_snapshots_handler(workspace_id)

\* A session with the workspaces wss created and workspace open_id open
\* (NoId: Uninitialized), no view yet.
InitWith(wss, open_id) ==
  /\ alive = TRUE
  /\ workspaces = wss
  /\ open_ws = open_id
  /\ next_id = 1
  /\ views = {}
  /\ parent = [id \in AllIds |-> NoId]
  /\ children = [c \in Containers |-> <<>>]
  /\ trash = <<>>
  /\ favorites = <<>>
  /\ current_view = NoId
  /\ snapshots = [ws \in WorkspaceIds |-> <<>>]
  /\ captures = [ws \in WorkspaceIds |-> 0]
  /\ inflight = [c \in Callers |-> Idle]
  /\ last = Call("init", NoId, <<>>, "Ok")

\* A session with workspace W created and open, no view yet.
Init == InitWith({W}, W)

\* Sessions that build and rearrange the tree.
CreateViewT == CreateViewUpTo(MaxViews, {FALSE})

CreateOrphanViewT == CreateOrphanViewUpTo(MaxViews, {FALSE})

MoveViewT == MoveViewUpTo(MaxViews)

MoveNestedViewT == MoveNestedViewUpTo(MaxViews)

DuplicateViewT == DuplicateViewUpTo(MaxViews)

NextTree ==
  \/ CreateViewT
  \/ CreateOrphanViewT
  \/ MoveViewT
  \/ MoveNestedViewT
  \/ DuplicateViewT

SpecTree == Init /\ [][NextTree]_vars

\* Sessions that also trash, restore and purge, one id per batch call.
TrashIds == IdsUpTo(MaxTrashViews)

CreateView == CreateViewUpTo(MaxTrashViews, BOOLEAN)

CreateOrphanView == CreateOrphanViewUpTo(MaxTrashViews, {FALSE})

MoveView == MoveViewUpTo(MaxTrashViews)

MoveNestedView == MoveNestedViewUpTo(MaxTrashViews)

DuplicateView == DuplicateViewUpTo(MaxTrashViews)

DeleteView == DeleteViewOver(ListsOver(TrashIds, 1))

PutbackTrash == PutbackTrashOver(TrashIds)

DeleteTrash == DeleteTrashOver(ListsOver(TrashIds, 1))

Next ==
  \/ CreateView
  \/ CreateOrphanView
  \/ MoveView
  \/ MoveNestedView
  \/ DuplicateView
  \/ DeleteView
  \/ PutbackTrash
  \/ DeleteTrash
  \/ RestoreAllTrash
  \/ DeleteAllTrash

Spec == Init /\ [][Next]_vars

\* Sessions that tag favorites and open views, one id per batch call.
FavIds == IdsUpTo(MaxFavViews)

CreateViewF == CreateViewUpTo(MaxFavViews, BOOLEAN)

ToggleFavoritesF == ToggleFavoritesOver(ListsOver(FavIds, 1))

SetLatestViewF == SetLatestViewOver(FavIds)

CloseViewF == CloseViewOver(FavIds)

DeleteViewF == DeleteViewOver(ListsOver(FavIds, 1))

DeleteTrashF == DeleteTrashOver(ListsOver(FavIds, 1))

NextFav ==
  \/ CreateViewF
  \/ ToggleFavoritesF
  \/ SetLatestViewF
  \/ CloseViewF
  \/ DeleteViewF
  \/ DeleteTrashF

SpecFav == Init /\ [][NextFav]_vars

\* Sessions of batch calls with lists of up to MaxBatch ids.
BatchIds == IdsUpTo(MaxBatch)

BatchLists == ListsOver(BatchIds, MaxBatch)

\* Views are created at the end of the workspace root.
CreateViewB == CreateViewIn(MaxBatch, {W}, {MaxBatch}, {FALSE})

DeleteViewB == DeleteViewOver(BatchLists)

ToggleFavoritesB == ToggleFavoritesOver(BatchLists)

DeleteTrashB == DeleteTrashOver(BatchLists)

NextBatch ==
  \/ CreateViewB
  \/ DeleteViewB
  \/ ToggleFavoritesB
  \/ DeleteTrashB

SpecBatch == Init /\ [][NextBatch]_vars

\* Sessions that build trees and duplicate subtrees of them.
NextDup ==
  \/ CreateViewUpTo(MaxDupViews, {FALSE})
  \/ CreateOrphanViewUpTo(MaxDupViews, {FALSE})
  \/ DuplicateViewUpTo(MaxDupViews)

SpecDup == Init /\ [][NextDup]_vars

\* Sessions that import command sequences into a tree with trashed views.
\* A command names the workspace, a view, a view an earlier command of the
\* import creates, or an unknown id.
NextImport ==
  \/ CreateViewIn(MaxImport, {W} \cup IdsUpTo(MaxImport), {MaxImport}, {FALSE})
  \/ DeleteViewOver(ListsOver(IdsUpTo(MaxImport), 1))
  \/ \E params \in ListsOver({W} \cup IdsUpTo(MaxImport), MaxImport) :
       /\ next_id + Len(params) - 1 <= MaxImport
       /\ import_data_handler(params)

SpecImport == Init /\ [][NextImport]_vars

\* Sessions of calls of every handler in which the manager is dropped at some
\* point.  Views are created at and moved to the front of the children of
\* their parent, or of the workspace.
NextDrop ==
  \/ CreateWorkspace
  \/ GetWorkspaceViews
  \/ OpenWorkspaceOver({W2, EmptyId})
  \/ ReadCurrentWorkspaceSetting
  \/ ReadCurrentWorkspace
  \/ CreateViewIn(MaxDropViews, {W} \cup IdsUpTo(MaxDropViews), {0}, BOOLEAN)
  \/ CreateOrphanViewIn(MaxDropViews, {NoId}, {0}, BOOLEAN)
  \/ \E view_id \in IdsUpTo(MaxDropViews) :
       Read("read_view", view_id, read_view_handler(view_id))
  \/ \E view_id \in IdsUpTo(MaxDropViews) : update_view_handler(view_id)
  \/ \E view_id \in IdsUpTo(MaxDropViews) : update_view_icon_handler(view_id)
  \/ DeleteViewOver(ListsOver(IdsUpTo(MaxDropViews), 1))
  \/ ToggleFavoritesOver(ListsOver(IdsUpTo(MaxDropViews), 1))
  \/ SetLatestViewOver(IdsUpTo(MaxDropViews))
  \/ CloseViewOver(IdsUpTo(MaxDropViews))
  \/ \E view_id \in IdsUpTo(MaxDropViews) : move_view_handler(view_id, CurrentIndex(view_id), 0)
  \/ \E view_id \in IdsUpTo(MaxDropViews) : move_nested_view_handler(view_id, W, NoId)
  \/ DuplicateViewUpTo(MaxDropViews)
  \/ ReadFavorites
  \/ ReadTrash
  \/ PutbackTrashOver(IdsUpTo(MaxDropViews))
  \/ DeleteTrashOver(ListsOver(IdsUpTo(MaxDropViews), 1))
  \/ RestoreAllTrash
  \/ DeleteAllTrash
  \/ \E params \in ListsOver({W} \cup IdsUpTo(MaxDropViews), 1) :
       /\ next_id + Len(params) - 1 <= MaxDropViews
       /\ import_data_handler(params)
  \/ GetFolderSnapshotsOver({W})
  \/ Drop

SpecDrop == Init /\ [][NextDrop]_vars

\* ------------------------------------------------------- calls in flight
\* The engine state the calls in flight started from: the state when the
\* first of them was submitted.
BaseOf(calls) ==
  IF \E c \in Callers : calls[c].pc # "idle"
  THEN calls[CHOOSE c \in Callers : calls[c].pc # "idle"].base
  ELSE <<Folder>>

\* The records of returned calls are kept while a call of another caller is
\* in flight, and cleared together.
Settle(calls) ==
  IF \A c \in Callers : calls[c].pc \in {"idle", "returned"}
  THEN [c \in Callers |-> Idle]
  ELSE calls

\* move_nested_view_handler up to its await: the manager is upgraded, the
\* parameters are parsed, and the call is submitted to the engine.
SubmitMove(c, view_id, new_parent_id, prev_view_id) ==
  /\ inflight[c].pc = "idle"
  /\ IF upgrade_folder # "Ok"
     THEN Dropped("move_nested_view", view_id, <<new_parent_id, prev_view_id>>)
     ELSE /\ inflight' = [inflight EXCEPT ![c] =
                           [pc |-> "called", op |-> "move_nested_view", id |-> view_id,
                            args |-> <<new_parent_id, prev_view_id>>, result |-> "none",
                            base |-> BaseOf(inflight), interleaved |-> FALSE]]
          /\ Install(Folder)
          /\ UNCHANGED <<alive, last>>

\* The move applied to the engine state of now although it was validated
\* against the state the call was submitted in (check, then act).
ForceMove(st, id, new_parent_id, prev_view_id) ==
  [st EXCEPT !.children = [Detach(st, id) EXCEPT ![new_parent_id] =
                             InsertAt(@, PositionAfter(Remove(st.children[new_parent_id], id),
                                                       prev_view_id), id)],
             !.parent[id] = new_parent_id]

ApplyMoveStale(c) ==
  /\ inflight[c].pc = "called"
  /\ inflight[c].op = "move_nested_view"
  /\ LET call == inflight[c]
         r == move_nested_view(call.base[1], call.id, call.args[1], call.args[2])
     IN /\ Install(IF r.res = "Ok"
                   THEN ForceMove(Folder, call.id, call.args[1], call.args[2])
                   ELSE Folder)
        /\ inflight' = Interleave([inflight EXCEPT ![c] =
                                     [call EXCEPT !.pc = "applied", !.result = r.res]], c)
  /\ UNCHANGED <<alive, last>>

\* The engine's move_nested_view of a submitted call: one critical section
\* with exclusive access to the whole tree (5).
ApplyMove(c) ==
  /\ inflight[c].pc = "called"
  /\ inflight[c].op = "move_nested_view"
  /\ LET call == inflight[c]
         r == move_nested_view(Folder, call.id, call.args[1], call.args[2])
     IN /\ Install(r.st)
        /\ inflight' = Interleave([inflight EXCEPT ![c] =
                                     [call EXCEPT !.pc = "applied", !.result = r.res]], c)
  /\ UNCHANGED <<alive, last>>

\* move_nested_view_handler returns the engine's result to its caller.
FinishMove(c) ==
  /\ inflight[c].pc = "applied"
  /\ inflight[c].op = "move_nested_view"
  /\ last' = Call("move_nested_view", inflight[c].id, inflight[c].args, inflight[c].result)
  /\ inflight' = Settle([inflight EXCEPT ![c].pc = "returned"])
  /\ Install(Folder)
  /\ UNCHANGED alive

\* Sessions in which two callers have move_nested_view calls in flight.
ConcIds == IdsUpTo(MaxConcViews) \ {UnknownId(MaxConcViews)}

NextConc ==
  \/ /\ \A c \in Callers : inflight[c].pc = "idle"
     /\ CreateViewIn(MaxConcViews, {W} \cup ConcIds, {MaxConcViews}, {FALSE})
  \/ \E c \in Callers, view_id \in ConcIds, new_parent_id \in {W} \cup ConcIds :
       SubmitMove(c, view_id, new_parent_id, NoId)
  \/ \E c \in Callers : ApplyMove(c)
  \/ \E c \in Callers : FinishMove(c)
  \/ GetWorkspaceViews

SpecConc == Init /\ [][NextConc]_vars

\* A create handler after its first engine operation returned r: the error is
\* returned at once (?), a created view is held while set_current_view is
\* awaited.
BeginCreate(c, op, r) ==
  IF r.res # "Ok" THEN Return(Folder, op, NoId, <<>>, r.res)
  ELSE /\ Install(r.st)
       /\ inflight' = Interleave([inflight EXCEPT ![c] =
                                   [pc |-> "created", op |-> op, id |-> r.val, args |-> <<>>,
                                    result |-> "none", base |-> <<>>, interleaved |-> FALSE]], c)
       /\ UNCHANGED <<alive, last>>

\* create_view_handler with set_as_current = true, up to the await of
\* set_current_view.
BeginCreateView(c, parent_id, position) ==
  /\ inflight[c].pc = "idle"
  /\ IF upgrade_folder # "Ok" THEN Dropped("create_view", NoId, <<>>)
     ELSE BeginCreate(c, "create_view", create_view_with_params(Folder, parent_id, position))

\* create_orphan_view_handler with set_as_current = true, up to the await of
\* set_current_view.
BeginCreateOrphanView(c, parent_id, position) ==
  /\ inflight[c].pc = "idle"
  /\ IF upgrade_folder # "Ok" THEN Dropped("create_orphan_view", NoId, <<>>)
     ELSE BeginCreate(c, "create_orphan_view",
                      create_orphan_view_with_params(Folder, parent_id, position))

\* The second step with the result of set_current_view returned (? in place
\* of let _ =).
FinishCreateStrict(c) ==
  /\ inflight[c].pc = "created"
  /\ LET call == inflight[c]
         r == set_current_view(Folder, call.id)
     IN /\ Install(r.st)
        /\ last' = Call(call.op, IF r.res = "Ok" THEN call.id ELSE NoId, <<>>, r.res)
        /\ inflight' = Interleave([inflight EXCEPT ![c] = Idle], c)
  /\ UNCHANGED alive

\* The second step of the create handlers: set_current_view of the created
\* view, its result dropped (let _ =), and the created view returned.
FinishCreate(c) ==
  /\ inflight[c].pc = "created"
  /\ LET call == inflight[c]
         r == set_current_view(Folder, call.id)
     IN /\ Install(r.st)
        /\ last' = Call(call.op, call.id, <<>>, "Ok")
        /\ inflight' = Interleave([inflight EXCEPT ![c] = Idle], c)
  /\ UNCHANGED alive

\* Sessions in which the create handlers of two callers run step by step
\* among the handlers of other callers.  These are called by a caller that
\* has no call in flight.
SomeIdle == \E c \in Callers : inflight[c].pc = "idle"

NextRace ==
  \/ /\ next_id <= MaxRaceViews
     /\ \E c \in Callers : BeginCreateView(c, W, 0)
  \/ /\ next_id <= MaxRaceViews
     /\ \E c \in Callers : BeginCreateOrphanView(c, NoId, 0)
  \/ \E c \in Callers : FinishCreate(c)
  \/ SomeIdle /\ DeleteViewOver(ListsOver(IdsUpTo(MaxRaceViews), 1) \ {<<>>})
  \/ SomeIdle /\ DeleteTrashOver(ListsOver(IdsUpTo(MaxRaceViews), 1) \ {<<>>})
  \/ SomeIdle /\ SetLatestViewOver(IdsUpTo(MaxRaceViews))
  \/ SomeIdle /\ OpenWorkspaceOver({W})

SpecRace == Init /\ [][NextRace]_vars

\* Sessions that start Uninitialized, create workspaces and open them.
NextWs ==
  \/ CreateWorkspace
  \/ OpenWorkspaceOver(WorkspaceIds \cup {UnknownWorkspace, EmptyId})
  \/ ReadCurrentWorkspace
  \/ CreateViewIn(MaxWsViews, WorkspaceIds, {MaxWsViews}, BOOLEAN)
  \/ SetLatestViewOver(IdsUpTo(MaxWsViews))
  \/ DeleteViewOver(ListsOver(IdsUpTo(MaxWsViews), 1))

SpecWs == InitWith({}, NoId) /\ [][NextWs]_vars

\* Sessions that capture and list snapshots of two workspaces.
NextSnap ==
  \/ CreateViewIn(MaxSnapViews, {W}, {MaxSnapViews}, {FALSE})
  \/ /\ captures[W] + captures[W2] < MaxCaptures
     /\ \E workspace_id \in WorkspaceIds : Capture(workspace_id)
  \/ GetFolderSnapshotsOver(WorkspaceIds \cup {UnknownWorkspace})

SpecSnap == InitWith(WorkspaceIds, W) /\ [][NextSnap]_vars

\* ------------------------------------------------------------------ properties
\* The containers reached from id by following parent_id at most n times.
RECURSIVE Up(_, _)
Up(id, n) ==
  IF n = 0 \/ id \notin views \/ parent[id] = NoId THEN {}
  ELSE {parent[id]} \cup Up(parent[id], n - 1)

\* The views reached from c by following ordered_children at most n times.
RECURSIVE Down(_, _)
Down(c, n) ==
  IF n = 0 THEN {}
  ELSE Range(children[c]) \cup UNION {Down(k, n - 1) : k \in Range(children[c])}

\* d is below a in the tree.
IsDescendant(d, a) == a \in Up(d, MaxViews + 2) \/ d \in Down(a, MaxViews + 2)

\* No view is its own ancestor, along parent_id or along ordered_children.
NoCycle ==
  \A v \in views : v \notin Up(v, MaxViews + 2) /\ v \notin Down(v, MaxViews + 2)

\* A move of a present view under itself or under one of its descendants
\* returns InvalidOperation.
CycleMoveRejected ==
  ( /\ last'.op = "move_nested_view"
    /\ last'.id \in views
    /\ (last'.args[1] = last'.id \/ IsDescendant(last'.args[1], last'.id)) )
  => last'.result = "InvalidOperation"

\* C1: in every state reached by create_view, create_orphan_view, move_view and
\* duplicate_view calls no view is its own ancestor, and a move of a view under
\* itself or under one of its descendants is rejected with InvalidOperation.
C1_CycleFreedom == []NoCycle /\ [][CycleMoveRejected]_vars

\* A move under a view's own subtree has just been rejected; the tree is
\* still a tree.
C1_Witness ==
  /\ last.op = "move_nested_view"
  /\ last.result = "InvalidOperation"
  /\ last.id \in views
  /\ children[last.id] # <<>>
  /\ NoCycle


\* The view ids assigned so far.
Created == {IdPool[i] : i \in 1..(next_id - 1)}

\* Number of occurrences of x in s.
Count(s, x) == Cardinality({i \in 1..Len(s) : s[i] = x})

\* Number of occurrences of id over the ordered_children lists ch.
OccurrencesIn(ch, id) ==
  LET RECURSIVE Sum(_)
      Sum(cs) == IF cs = {} THEN 0
                 ELSE LET c == CHOOSE x \in cs : TRUE
                      IN Count(ch[c], id) + Sum(cs \ {c})
  IN Sum(Containers)

\* Number of occurrences of id over all ordered_children lists.
Occurrences(id) == OccurrencesIn(children, id)

\* id is a member of some ordered_children list.
InSomeChildren(id) == \E c \in Containers : id \in Range(children[c])

\* The three conditions of a view id.
LiveAndAttached(id) == id \in views /\ id \notin Range(trash) /\ InSomeChildren(id)

Trashed(id) == id \in Range(trash)

Purged(id) == id \in Created /\ id \notin views

\* Exactly one of three conditions holds.
ExactlyOne(a, b, c) == (a /\ ~b /\ ~c) \/ (~a /\ b /\ ~c) \/ (~a /\ ~b /\ c)

C3_Original ==
  \A p \in workspaces \cup views :
    /\ \A id \in Range(children[p]) : Count(children[p], id) = 1
    /\ Range(children[p]) = {id \in views : parent[id] = p}

\* C3 as amended: for every parent p in the Node Store, ordered_children(p) has
\* no duplicates and is exactly the set of views that are not trashed and
\* whose parent_id is p.
C3_ChildrenMatchParent ==
  \A p \in workspaces \cup views :
    /\ \A id \in Range(children[p]) : Count(children[p], id) = 1
    /\ Range(children[p]) = {id \in views : parent[id] = p /\ ~Trashed(id)}

\* A trashed view keeps its parent_id and is not among the children of that
\* parent, which has another child.
C3_Witness ==
  \E id \in views :
    /\ Trashed(id)
    /\ parent[id] \in workspaces \cup views
    /\ id \notin Range(children[parent[id]])
    /\ children[parent[id]] # <<>>


\* The engine state is what it was before the call.
EngineUnchanged ==
  UNCHANGED <<workspaces, open_ws, next_id, views, parent, children, trash,
              favorites, current_view, snapshots, captures>>

\* A successful move_nested_view_handler(id, np, prev) leaves id exactly once
\* in the lists, in the list of np and right after prev (at the front without a
\* prev, at the end when prev is not a child of np), with parent_id np, and
\* changes neither the order of the other views nor their parent_id.
MoveNestedEffect ==
  (last'.op = "move_nested_view" /\ last'.result = "Ok") =>
    LET id == last'.id
        np == last'.args[1]
        prev == last'.args[2]
        others == Remove(children[np], id)
        k == IndexOf(children'[np], id)
    IN /\ parent'[id] = np
       /\ OccurrencesIn(children', id) = 1
       /\ k >= 1
       /\ (parent[id] \in Containers /\ parent[id] # np)
            => id \notin Range(children'[parent[id]])
       /\ \A c \in Containers : Remove(children'[c], id) = Remove(children[c], id)
       /\ \A v \in AllIds \ {id} : parent'[v] = parent[v]
       /\ IF prev = NoId THEN k = 1
          ELSE IF prev \in Range(others) THEN k > 1 /\ children'[np][k - 1] = prev
          ELSE k = Len(children'[np])

\* A successful move_view_handler(id, from, to) leaves id exactly once in the
\* lists, at index `to` (clamped) of the list of its parent, and changes
\* neither parent_id nor the order of the other views.
MoveViewEffect ==
  (last'.op = "move_view" /\ last'.result = "Ok") =>
    LET id == last'.id
        to == last'.args[2]
        others == Remove(children[parent[id]], id)
    IN /\ parent' = parent
       /\ OccurrencesIn(children', id) = 1
       /\ \A c \in Containers : Remove(children'[c], id) = Remove(children[c], id)
       /\ IndexOf(children'[parent[id]], id) = (IF to > Len(others) THEN Len(others) ELSE to) + 1

\* With W:[A] and A:[B], moving B under W after A gives A:[] and W:[A, B].
MoveScenario ==
  ( /\ children[W] = <<IdPool[1]>>
    /\ children[IdPool[1]] = <<IdPool[2]>>
    /\ move_nested_view_handler(IdPool[2], W, IdPool[1]) )
  => /\ last'.result = "Ok"
     /\ children'[IdPool[1]] = <<>>
     /\ children'[W] = <<IdPool[1], IdPool[2]>>

\* C4: a successful move removes id from the ordered_children of its old
\* parent, inserts it into those of new_parent_id at the position asked for and
\* sets parent_id(id) = new_parent_id; id is then in exactly one list and the
\* other siblings keep their relative order.
C4_MoveEffect == [][MoveNestedEffect /\ MoveViewEffect /\ MoveScenario]_vars

\* B has just been moved from under A to the end of W's children, next to A
\* and a third view.
C4_Witness ==
  /\ last = Call("move_nested_view", IdPool[2], <<W, IdPool[3]>>, "Ok")
  /\ Len(children[W]) = 3
  /\ children[W][3] = IdPool[2]
  /\ children[IdPool[1]] = <<>>

\* What a move returns: NotFound when id or new_parent_id is absent,
\* InvalidOperation when new_parent_id is id or one of its descendants; an
\* error comes with an unchanged engine state.
MoveNestedErrors ==
  last'.op = "move_nested_view" =>
    LET id == last'.id
        np == last'.args[1]
    IN /\ (id \notin views \/ np \notin workspaces \cup views) => last'.result = "NotFound"
       /\ (id \in views /\ (np = id \/ (np \in views /\ IsDescendant(np, id))))
            => last'.result = "InvalidOperation"
       /\ last'.result # "Ok" => EngineUnchanged

\* A failed move_view_handler comes with an unchanged engine state.
MoveViewErrors ==
  last'.op = "move_view" =>
    /\ last'.id \notin views => last'.result = "NotFound"
    /\ last'.result # "Ok" => EngineUnchanged

\* C5: a move that fails returns its error (NotFound for an absent id or
\* new_parent_id, InvalidOperation for a move under the view itself or one of
\* its descendants) and leaves the whole engine state unchanged.
C5_FailedMoveUnchanged == [][MoveNestedErrors /\ MoveViewErrors]_vars

\* A move has just failed in a session with a view, a trashed view and an
\* active view.
C5_Witness ==
  /\ last.op = "move_nested_view"
  /\ last.result \in {"NotFound", "InvalidOperation"}
  /\ trash # <<>>
  /\ current_view # NoId
  /\ \E id \in views : ~Trashed(id)


\* delete_view_handler([A]) for a live view A with children: A leaves the list
\* of its parent and gets a Trash Entry, keeps its parent_id and its children;
\* the children stay live and get no Trash Entry.
TrashNoCascade ==
  (last'.op = "delete_view" /\ Len(last'.args) = 1) =>
    LET A == last'.args[1] IN
    (A \in views /\ ~Trashed(A) /\ children[A] # <<>>) =>
      /\ last'.result = "Ok"
      /\ ~(\E c \in Containers : A \in Range(children'[c]))
      /\ trash' = Append(trash, A)
      /\ parent'[A] = parent[A]
      /\ children'[A] = children[A]
      /\ \A B \in Range(children[A]) :
           B \in views' /\ B \notin Range(trash') /\ parent'[B] = A

\* putback_trash_handler(A) for a trashed A whose parent is the workspace root:
\* A is back at the end of the root's children with the children it had.
RestoreKeepsChildren ==
  last'.op = "putback_trash" =>
    LET A == last'.id IN
    (Trashed(A) /\ parent[A] = W) =>
      /\ children'[W] = Append(children[W], A)
      /\ parent'[A] = W
      /\ A \notin Range(trash')
      /\ children'[A] = children[A]
      /\ \A B \in Range(children[A]) : B \in views' /\ parent'[B] = A

\* C6: trashing does not cascade: after trash(A), A is in no ordered_children
\* and in the Trash Ledger with its parent_id kept, its children are still live
\* members of its ordered_children; restore(A) puts A back under W with the
\* same children.
C6_TrashDoesNotCascade == [][TrashNoCascade /\ RestoreKeepsChildren]_vars

\* A, a child of W with a live child, has just been trashed.
C6_Witness ==
  /\ last.op = "delete_view"
  /\ Len(last.args) = 1
  /\ trash = <<last.args[1]>>
  /\ parent[last.args[1]] = W
  /\ children[W] = <<>>
  /\ children[last.args[1]] # <<>>
  /\ \A B \in Range(children[last.args[1]]) : B \in views /\ parent[B] = last.args[1]

\* C7 as stated: restore(id) of an id that is not in the Trash Ledger (a second
\* restore after the first one succeeded) returns NotFound, not success, and
\* changes nothing.
C7_RestoreTwiceFails ==
  [][(last'.op = "putback_trash" /\ ~Trashed(last'.id))
       => (last'.result = "NotFound" /\ EngineUnchanged)]_vars

\* The restore of a trashed id: appended to the children of the recorded
\* parent when that parent is a workspace or a live view, to those of the
\* workspace root otherwise; parent_id follows; the Trash Entry is removed and
\* nothing else changes.
RestoreEffect ==
  (last'.op = "putback_trash" /\ Trashed(last'.id)) =>
    LET id == last'.id
        p == parent[id]
        target == IF p \in workspaces \/ (p \in views /\ ~Trashed(p)) THEN p ELSE open_ws
    IN /\ last'.result = "Ok"
       /\ children' = [children EXCEPT ![target] = Append(@, id)]
       /\ parent' = [parent EXCEPT ![id] = target]
       /\ trash' = Remove(trash, id)
       /\ id \notin Range(trash')
       /\ views' = views

\* s is a prefix of t.
IsPrefix(s, t) == Len(s) <= Len(t) /\ SubSeq(t, 1, Len(s)) = s

\* restore_all_trash_handler: every entry is restored, each appended to the
\* children of its recorded parent or of the workspace root.
RestoreAllEffect ==
  last'.op = "restore_all_trash" =>
    /\ trash' = <<>>
    /\ views' = views
    /\ \A c \in Containers : IsPrefix(children[c], children'[c])
    /\ \A id \in Range(trash) :
         /\ parent'[id] \in {parent[id], open_ws}
         /\ id \in Range(children'[parent'[id]])
         /\ (parent[id] \in workspaces \/ (parent[id] \in views /\ ~Trashed(parent[id])))
              => parent'[id] = parent[id]

\* C8: a successful restore(id) appends id at the end of the children of its
\* recorded parent when that parent is present and live, otherwise at the end
\* of the workspace root's children with parent_id updated; is_trashed is
\* cleared and the Trash Entry removed.
C8_RestoreTarget == [][RestoreEffect /\ RestoreAllEffect]_vars

\* The second view has just been restored to the workspace root while the
\* first view, under which it was created, is still in the trash.
C8_Witness ==
  /\ last = Call("putback_trash", IdPool[2], <<>>, "Ok")
  /\ trash = <<IdPool[1]>>
  /\ children[W] = <<IdPool[2]>>
  /\ parent[IdPool[2]] = W
  /\ parent[IdPool[1]] = W


\* x occurs an odd number of times in s.
OddCount(s, x) == Count(s, x) % 2 = 1

\* delete_view_handler returns Ok and every present id of its list has a
\* Trash Entry afterwards; no other view gets one and no view leaves the store.
BatchDelete ==
  (alive /\ last'.op = "delete_view") =>
    /\ last'.result = "Ok"
    /\ \A x \in Range(last'.args) : x \in views => x \in Range(trash')
    /\ Range(trash') = Range(trash) \cup (Range(last'.args) \cap views)
    /\ views' = views

\* toggle_favorites_handler returns Ok and is_favorite of every present id is
\* flipped once per occurrence in the list.
BatchToggle ==
  (alive /\ last'.op = "toggle_favorites") =>
    /\ last'.result = "Ok"
    /\ \A x \in views :
         (x \in Range(favorites')) = ((x \in Range(favorites)) # OddCount(last'.args, x))
    /\ Range(favorites') \subseteq views

\* delete_trash_handler returns Ok and every trashed id of its list is purged,
\* no other view is.
BatchPurge ==
  (alive /\ last'.op = "delete_trash") =>
    /\ last'.result = "Ok"
    /\ views' = views \ {x \in Range(last'.args) : Trashed(x)}
    /\ Range(trash') = Range(trash) \ Range(last'.args)

\* C9: while the manager is alive each batch handler returns success for every
\* id list and applies its operation to every valid id of the list, wherever
\* the unknown or already processed ids are in it.
C9_BatchBestEffort == [][BatchDelete /\ BatchToggle /\ BatchPurge]_vars

\* delete_view_handler has returned Ok for a list of an unknown id followed by
\* a valid one, and the valid one is trashed.
C9_Witness ==
  /\ last = Call("delete_view", NoId, <<UnknownId(MaxBatch), IdPool[1]>>, "Ok")
  /\ IdPool[1] \in views
  /\ Trashed(IdPool[1])
  /\ UnknownId(MaxBatch) \notin views

\* Favorites and the active view name views of the Node Store only, and so do
\* the results of read_favorites_handler and get_current.
RefsResolve ==
  /\ Range(favorites) \subseteq views
  /\ \A x \in Range(favorites) : Count(favorites, x) = 1
  /\ current_view = NoId \/ current_view \in views
  /\ read_favorites_handler.res = "Ok"
  /\ Range(read_favorites_handler.val) \subseteq views
  /\ read_favorites_handler.val = favorites
  /\ get_current_view(Folder) = current_view

\* A purge takes the purged ids out of Favorites, in place, and clears the
\* active view when it is one of them.
PurgeClearsRefs ==
  last'.op = "delete_trash" =>
    LET gone == {x \in Range(last'.args) : Trashed(x)} IN
    /\ favorites' = SelectSeq(favorites, LAMBDA x : x \notin gone)
    /\ current_view' = IF current_view \in gone THEN NoId ELSE current_view

\* set_current and toggle_favorite of absent ids change nothing.
AbsentRefNoop ==
  /\ (last'.op = "set_latest_view" /\ last'.id \notin views) => EngineUnchanged
  /\ (last'.op = "toggle_favorites" /\ Range(last'.args) \cap views = {}) => EngineUnchanged

\* C10: in every reachable state the Favorites Set and the active-view
\* reference name only ids of the Node Store: a purge removes the id from
\* Favorites and clears the active view if it was that id, set_current and
\* toggle_favorite of an absent id change nothing, and get_current and
\* list_favorites return no purged view.
C10_RefsResolve == []RefsResolve /\ [][PurgeClearsRefs /\ AbsentRefNoop]_vars

\* A view has just been purged; the views that are favorite or active are
\* views of the Node Store.
C10_Witness ==
  /\ last.op = "delete_trash"
  /\ Len(last.args) = 1
  /\ last.args[1] \in Created \ views
  /\ favorites # <<>>
  /\ current_view # NoId


\* close_view_handler(id) returns Ok, clears the active-view reference when it
\* is id and leaves it alone otherwise; nothing else changes.
CloseEffect ==
  last'.op = "close_view" =>
    /\ last'.result = "Ok"
    /\ (current_view' # current_view) <=> (current_view = last'.id /\ current_view # NoId)
    /\ current_view = last'.id => current_view' = NoId
    /\ UNCHANGED <<workspaces, open_ws, next_id, views, parent, children, trash,
                   favorites, snapshots, captures>>

\* C11: close(id) clears the active-view reference if and only if the active
\* view is id; when the active view is another id or none, close(id) leaves
\* the active-view reference and the tree, trash, favorites and snapshots
\* unchanged.
C11_CloseOnlyActive == [][CloseEffect]_vars

\* A view other than the active one has just been closed, with a favorite and
\* a trashed view around; the active view is still active.
C11_Witness ==
  /\ last.op = "close_view"
  /\ last.id \in views
  /\ current_view \in views
  /\ current_view # last.id
  /\ favorites # <<>>
  /\ trash # <<>>


\* The capture times of a sequence of snapshots.
Times(s) == [i \in 1..Len(s) |-> s[i].taken]

\* The numbers from hi down to lo.
Descending(hi, lo) == [i \in 1..(hi - lo + 1) |-> hi + 1 - i]

\* Number of snapshots retained for a workspace.
Retained(workspace_id) == Len(snapshots[workspace_id])

\* The limits a caller can ask for.
Limits == 0..(RetentionBound + 1)

\* list(ws, limit) returns, without error, the min(limit, retained) latest
\* captures of ws, newest first; nothing for an unknown workspace.
ListHonoursLimit ==
  \A limit \in Limits :
    /\ \A ws \in workspaces :
         LET r == get_folder_snapshots(Folder, ws, limit)
             n == IF limit < Retained(ws) THEN limit ELSE Retained(ws)
         IN /\ r.res = "Ok"
            /\ r.st = Folder
            /\ Len(r.val) = n
            /\ \A i \in 1..n : r.val[i].workspace = ws
            /\ Times(r.val) = Descending(captures[ws], captures[ws] - n + 1)
    /\ get_folder_snapshots(Folder, UnknownWorkspace, limit) = Ret(Folder, "Ok", <<>>)

\* get_folder_snapshots_handler returns Ok with what list gives for the limit
\* it supplies, and changes nothing.
ListHandler ==
  last'.op = "get_folder_snapshots" =>
    /\ last'.result = "Ok"
    /\ last'.args = get_folder_snapshots(Folder, last'.id, SnapshotLimit).val
    /\ last'.id \notin workspaces => last'.args = <<>>
    /\ EngineUnchanged

\* C12: list(workspace_id, limit) is total and honours the limit it is given:
\* for every limit it returns the min(limit, retained) most recent snapshots of
\* the workspace newest first, the empty sequence for limit 0 and the empty
\* sequence for an unknown workspace, never an error.
C12_ListHonoursLimit == []ListHonoursLimit /\ [][ListHandler]_vars

\* The snapshots of a workspace with several retained have just been listed,
\* and so can fewer of them be.
C12_Witness ==
  /\ last.op = "get_folder_snapshots"
  /\ last.id = W2
  /\ Len(last.args) = 3
  /\ Retained(W) >= 2
  /\ Len(get_folder_snapshots(Folder, W2, 2).val) = 2
  /\ get_folder_snapshots(Folder, W2, 0).val = <<>>

\* The history of a workspace is never longer than the retention bound and
\* holds the latest captures, oldest first, each as it was captured.
HistoryBounded ==
  \A ws \in WorkspaceIds :
    LET n == Retained(ws) IN
    /\ n <= RetentionBound
    /\ n = (IF captures[ws] < RetentionBound THEN captures[ws] ELSE RetentionBound)
    /\ Times(Reverse(snapshots[ws])) = Descending(captures[ws], captures[ws] - n + 1)

\* A capture appends a snapshot of the current state and evicts the oldest
\* one when the history is full; the snapshots kept are not modified.
CaptureEffect ==
  \A ws \in WorkspaceIds :
    captures'[ws] # captures[ws] =>
      /\ last' = Call("capture", ws, <<>>, "Ok")
      /\ captures'[ws] = captures[ws] + 1
      /\ snapshots'[ws][Len(snapshots'[ws])] = Snapshot(Folder, ws)
      /\ IF Retained(ws) < RetentionBound
         THEN snapshots'[ws] = Append(snapshots[ws], Snapshot(Folder, ws))
         ELSE snapshots'[ws] = Append(Tail(snapshots[ws]), Snapshot(Folder, ws))

\* After RetentionBound + 1 captures the list of SnapshotLimit snapshots is
\* captures RetentionBound + 1 down to 2.
EvictionScenario ==
  (last'.op = "get_folder_snapshots" /\ last'.id \in workspaces
     /\ captures[last'.id] = RetentionBound + 1) =>
    /\ Times(last'.args) = Truncate(Descending(RetentionBound + 1, 2), SnapshotLimit)
    /\ \A i \in 1..Len(snapshots[last'.id]) : snapshots[last'.id][i].taken # 1

\* C13: after any sequence of captures the history of a workspace holds at
\* most the retention bound of snapshots, the most recent ones, the oldest
\* being evicted first: after 11 captures with a bound of 10 the list of 10 is
\* captures 11 down to 2 and capture 1 is gone.
C13_RetentionBound == []HistoryBounded /\ [][CaptureEffect /\ EvictionScenario]_vars

\* 11 snapshots of W were captured and its snapshots have just been listed:
\* captures 11 down to 2.
C13_Witness ==
  /\ captures[W] = RetentionBound + 1
  /\ last.op = "get_folder_snapshots"
  /\ last.id = W
  /\ Times(last.args) = Descending(RetentionBound + 1, 2)


\* The shape of the subtree of id in the lists ch: the shapes of its children,
\* in order.
RECURSIVE ShapeOf(_, _, _)
ShapeOf(ch, id, fuel) ==
  IF fuel = 0 THEN <<>>
  ELSE [i \in 1..Len(ch[id]) |-> ShapeOf(ch, ch[id][i], fuel - 1)]

\* The views of the subtree of id in the lists ch.
RECURSIVE SubtreeOf(_, _, _)
SubtreeOf(ch, id, fuel) ==
  IF fuel = 0 THEN {id}
  ELSE {id} \cup UNION {SubtreeOf(ch, ch[id][i], fuel - 1) : i \in 1..Len(ch[id])}

\* A successful duplicate_view_handler(id): the new views are ids never
\* assigned before and form one subtree of the shape of the subtree of id,
\* whose root is the new right sibling of id; the views that were there keep
\* their parent_id and their children.
DuplicateEffect ==
  (last'.op = "duplicate_view" /\ last'.result = "Ok") =>
    LET id == last'.id
        p == parent[id]
        fresh == views' \ views
        copy == IdPool[next_id]
    IN /\ id \in views
       /\ views \subseteq views'
       /\ fresh \cap Created = {}
       /\ copy \in fresh
       /\ p \in Containers
       /\ id \in Range(children[p])
       /\ children'[p] = InsertAt(children[p], IndexOf(children[p], id), copy)
       /\ children'[p][IndexOf(children'[p], id) + 1] = copy
       /\ parent'[copy] = p
       /\ SubtreeOf(children', copy, Len(IdPool)) = fresh
       /\ Cardinality(fresh) = Cardinality(SubtreeOf(children, id, Len(IdPool)))
       /\ ShapeOf(children', copy, Len(IdPool)) = ShapeOf(children, id, Len(IdPool))
       /\ ShapeOf(children', id, Len(IdPool)) = ShapeOf(children, id, Len(IdPool))
       /\ \A v \in fresh \ {copy} : parent'[v] \in fresh /\ v \in Range(children'[parent'[v]])
       /\ \A v \in fresh : OccurrencesIn(children', v) = 1
       /\ \A v \in views : parent'[v] = parent[v]
       /\ \A c \in (workspaces \cup views) \ {p} : children'[c] = children[c]
       /\ UNCHANGED <<trash, favorites, current_view>>

\* duplicate_view_handler of an absent id returns NotFound and changes
\* nothing.
DuplicateAbsent ==
  (last'.op = "duplicate_view" /\ last'.id \notin views) =>
    (last'.result = "NotFound" /\ EngineUnchanged)

ImportedId(i) == IdPool[next_id + i - 1]

\* The i-th command names a live parent: a workspace, a live view, or a view
\* that an earlier command of the import creates.
ValidCommand(commands, i) ==
  \/ commands[i] \in workspaces
  \/ commands[i] \in views /\ ~Trashed(commands[i])
  \/ \E j \in 1..(i - 1) : commands[i] = ImportedId(j)

\* import_data_handler returns Ok exactly when every command is valid, and
\* then every command is applied; otherwise it returns the error and the
\* engine state is the one before the call.
ImportAllOrNothing ==
  last'.op = "import_data" =>
    LET commands == last'.args
        n == Len(commands)
    IN IF \A i \in 1..n : ValidCommand(commands, i)
       THEN /\ last'.result = "Ok"
            /\ views' = views \cup {ImportedId(i) : i \in 1..n}
            /\ next_id' = next_id + n
            /\ \A i \in 1..n :
                 /\ parent'[ImportedId(i)] = commands[i]
                 /\ Count(children'[commands[i]], ImportedId(i)) = 1
            /\ \A v \in views : parent'[v] = parent[v]
            /\ \A c \in workspaces \cup views : IsPrefix(children[c], children'[c])
            /\ UNCHANGED <<trash, favorites, current_view>>
       ELSE /\ last'.result = "NotFound"
            /\ EngineUnchanged
            /\ \A i \in 1..n : ImportedId(i) \notin views'

\* In every step either no view appears or the step is a whole successful
\* call: no state has only part of an import applied.
NoPartialImport ==
  views' # views => (last'.result = "Ok" /\ last'.op \in {"import_data", "create_view"})

\* C15: import is all-or-nothing: if a command of the batch fails the call
\* returns an error and the tree is the tree before the call, with no view of
\* the batch present; if all commands succeed all are applied; no state has
\* only part of the batch applied.
C15_ImportAllOrNothing == [][ImportAllOrNothing /\ NoPartialImport]_vars

\* An import whose first command is valid and whose second names an unknown
\* parent has just failed; the tree holds the one view it held before.
C15_Witness ==
  /\ last = Call("import_data", NoId, <<W, UnknownId(MaxImport)>>, "NotFound")
  /\ views = {IdPool[1]}
  /\ next_id = 2
  /\ children[W] = <<IdPool[1]>>


\* The names the handlers are recorded under.
HandlerNames ==
  {"create_workspace", "get_workspace_views", "open_workspace",
   "read_current_workspace_setting", "read_current_workspace", "create_view",
   "create_orphan_view", "read_view", "update_view", "update_view_icon",
   "delete_view", "toggle_favorites", "set_latest_view", "close_view",
   "move_view", "move_nested_view", "duplicate_view", "read_favorites",
   "read_trash", "putback_trash", "delete_trash", "restore_all_trash",
   "delete_all_trash", "import_data", "get_folder_snapshots"}

\* C16 as stated: a handler invoked after the FolderManager was dropped
\* returns a Gone/Unavailable error and changes no state.
C16_DroppedHandlersGone ==
  [][~alive => (last'.result \in {"Gone", "Unavailable"} /\ EngineUnchanged)]_vars

\* What the handlers do after the drop: each returns the internal error of
\* upgrade_folder and changes no state.
DroppedHandlersInternal ==
  [][~alive => /\ last'.op \in HandlerNames
               /\ last'.result = "Internal"
               /\ EngineUnchanged
               /\ UNCHANGED <<alive, inflight>>]_vars


\* open_workspace_handler fails with InvalidOperation for the empty id and
\* with NotFound for an id no workspace has; a failed call leaves the open
\* workspace, the active view, the trash and everything else as they were.
OpenErrors ==
  last'.op = "open_workspace" =>
    /\ last'.id = EmptyId => last'.result = "InvalidOperation"
    /\ (last'.id # EmptyId /\ last'.id \notin workspaces) => last'.result = "NotFound"
    /\ last'.result # "Ok" =>
         /\ EngineUnchanged
         /\ read_current_workspace_handler' = read_current_workspace_handler

\* C17: open_workspace(id) with an empty id fails with InvalidOperation and
\* with a non-existent id fails with NotFound; in both cases the open
\* workspace, its active view and its trash are unchanged, and an
\* Uninitialized engine stays Uninitialized.
C17_OpenWorkspaceErrors == [][OpenErrors]_vars

\* open_workspace of the empty id has just failed while a workspace is open
\* with an active view and a trashed view.
C17_Witness ==
  /\ last.op = "open_workspace"
  /\ last.id = EmptyId
  /\ last.result = "InvalidOperation"
  /\ open_ws \in workspaces
  /\ current_view \in views
  /\ trash # <<>>

\* Once a workspace is open, one is open in the next state too.
StaysOpen == open_ws # NoId => open_ws' \in workspaces'

\* A successful open_workspace_handler(id) makes id the open workspace and
\* leaves no active view; the tree, the trash and the favorites are kept.
OpenEffect ==
  (last'.op = "open_workspace" /\ last'.result = "Ok") =>
    /\ last'.id \in workspaces
    /\ open_ws' = last'.id
    /\ current_view' = NoId
    /\ get_current_view(Folder)' = NoId
    /\ last'.args = children[last'.id]
    /\ UNCHANGED <<workspaces, next_id, views, parent, children, trash, favorites,
                   snapshots, captures>>

\* Only a successful open_workspace_handler changes the open workspace.
OnlyOpenChanges ==
  open_ws' # open_ws => (last'.op = "open_workspace" /\ last'.result = "Ok")

\* read_current_workspace_handler returns the one open workspace, and
\* record-not-found while Uninitialized.
ReadCurrent ==
  last'.op = "read_current_workspace" =>
    IF open_ws = NoId THEN last'.result = "NotFound"
    ELSE last'.result = "Ok" /\ last'.args = <<open_ws>>

\* C18: after the first successful open_workspace exactly one workspace is
\* open in every later state (the engine never returns to Uninitialized), and
\* each successful open_workspace(id) makes id the open workspace and replaces
\* the context: the active view of the workspace that was open is no longer
\* the current one.
C18_OneWorkspaceOpen ==
  /\ [](open_ws \in workspaces \cup {NoId})
  /\ [][StaysOpen /\ OpenEffect /\ OnlyOpenChanges /\ ReadCurrent]_vars

\* The second workspace has just been opened after the first, which has a
\* view; there is no active view.
C18_Witness ==
  /\ last.op = "open_workspace"
  /\ last.id = W2
  /\ last.result = "Ok"
  /\ open_ws = W2
  /\ children[W] # <<>>
  /\ current_view = NoId
  /\ read_current_workspace_handler = Ret(Folder, "Ok", <<W2>>)


\* The callers whose call in flight has been applied by the engine.
Applied == {c \in Callers : inflight[c].pc \in {"applied", "returned"}}

\* The engine's move of a call, run on st.
RunMove(st, call) == move_nested_view(st, call.id, call.args[1], call.args[2])

\* The orders in which the callers of S can be served one after the other.
Orders(S) ==
  {o \in [1..Cardinality(S) -> S] : \A i, j \in 1..Cardinality(S) : o[i] = o[j] => i = j}

\* Serving the calls one after the other in this order from st gives each
\* caller the result it got and ends in the engine state of now.
RECURSIVE Replays(_, _)
Replays(st, order) ==
  IF order = <<>> THEN st = Folder
  ELSE LET r == RunMove(st, inflight[Head(order)]) IN
       /\ r.res = inflight[Head(order)].result
       /\ Replays(r.st, Tail(order))

\* The moves applied so far are explained by one sequential order.
Linearized ==
  Applied # {} => \E order \in Orders(Applied) : Replays(BaseOf(inflight)[1], order)

\* Every view is in the ordered_children of its parent, once, and in no other.
NoPartialMove ==
  \A v \in views :
    /\ OccurrencesIn(children, v) = 1
    /\ parent[v] \in Containers
    /\ v \in Range(children[parent[v]])

\* Each of the two moves succeeds from st, and neither succeeds after the
\* other: together they would close a cycle.
MutuallyCycleForming(st, a, b) ==
  /\ a.id # b.id
  /\ RunMove(st, a).res = "Ok"
  /\ RunMove(st, b).res = "Ok"
  /\ RunMove(RunMove(st, a).st, b).res = "InvalidOperation"
  /\ RunMove(RunMove(st, b).st, a).res = "InvalidOperation"

\* Of two applied moves that are mutually cycle-forming, one was rejected.
OneOfTwoCycleMoves ==
  (Applied = Callers /\ MutuallyCycleForming(BaseOf(inflight)[1], inflight["c1"], inflight["c2"]))
  => \E c \in Callers : inflight[c].result = "InvalidOperation"

CreateReturns(c) == inflight[c].pc = "created" /\ inflight'[c].pc = "idle"

\* A create handler that created a view returns Ok with that view, whether
\* set_current_view succeeded or not; a failed set_current_view changes
\* nothing.
ReturnsCreated ==
  \A c \in Callers : CreateReturns(c) =>
    /\ last' = Call(inflight[c].op, inflight[c].id, <<>>, "Ok")
    /\ inflight[c].id \notin views => EngineUnchanged

\* When no operation of another caller ran between the two steps, the active
\* view on return is the created view.
CreatedIsCurrent ==
  \A c \in Callers : (CreateReturns(c) /\ ~inflight[c].interleaved) =>
    /\ inflight[c].id \in views'
    /\ get_current_view(Folder)' = inflight[c].id

\* The active view names a present view or none.
CurrentResolves ==
  /\ current_view \in views \cup {NoId}
  /\ get_current_view(Folder) = current_view

\* C20: the create handlers with set_as_current = true create and set_current
\* in two engine operations: a handler that created a view returns it even if
\* set_current fails; with no operation of another caller between the two
\* steps the active view on return is the created view; and under every
\* interleaving the active view names no absent id.
C20_CreateThenSetCurrent ==
  /\ []CurrentResolves
  /\ [][ReturnsCreated /\ CreatedIsCurrent]_vars

\* A create handler has just returned the view it created although the view
\* was trashed and purged between its two steps; another view is active.
C20_Witness ==
  /\ last.op \in {"create_view", "create_orphan_view"}
  /\ last.result = "Ok"
  /\ last.id \notin views
  /\ current_view \in views
  /\ current_view # last.id

====
